---- MODULE Spec2Model ----
(***************************************************************************)
(* The real-time node state synchronisation core of komari-theme-light:    *)
(*   - ApiService.get / getNodes        (src/src/services/api.ts)          *)
(*   - WebSocketService                 (src/src/services/api.ts)          *)
(*   - the useNodes hook                (src/src/hooks/useNodes.ts)        *)
(*   - WebSocketStatus.handleReconnect  (src/unnamed/part_004)             *)
(* JavaScript runs the handlers one at a time, so every handler is one     *)
(* atomic action.                                                          *)
(***************************************************************************)
EXTENDS Integers, Sequences, FiniteSets, TLC

VARIABLES
    \* ---- WebSocketService fields (api.ts:126-133)
    ws,                 \* this.ws: 0 is null, else the slot of a socket object
    reconnectAttempts,  \* this.reconnectAttempts
    listeners,          \* this.listeners: a Set, kept in insertion order
    onlineNodes,        \* this.onlineNodes
    nodeData,           \* this.nodeData: uuid -> raw telemetry entry
    \* ---- the browser side of the service
    sockets,            \* slot -> readyState of the socket object living there
    timers,             \* pending setTimeout(() => this.connect(), d): the d's, oldest first
    wire,               \* slot -> frames the socket transmitted that the server has not read
    \* ---- useNodes state (useNodes.ts:6-8) and its environment
    mounted,            \* the component using the hook is mounted
    nodes,              \* useState<NodeWithStatus[]>
    loading,            \* useState(false)
    error,              \* useState<string | null>: "" is null
    inflight,           \* number of apiService.getNodes() calls not yet settled
    pollTimers,         \* intervals of useNodes.ts:103 that are set and not cleared
    \* ---- WebSocketStatus state (part_004:7-8)
    isConnected,
    isConnecting,
    \* ---- history variables (not program state)
    delivered,          \* listeners invoked for the last inbound frame, in order
    userDisconnected,   \* disconnect() was called and connect() has not been called since
    failures,           \* calls of reconnect() since the counter was last reset
    scheduled,          \* reconnect timers armed since the counter was last reset
    restartedByCaller,  \* the socket this.ws refers to was created by a connect() that
                        \* client code called when the retry budget was exhausted
    newest,             \* the getNodes() call issued last: still pending, or settled
                        \* with a list (ok) of nodes with these uuids
    \* ---- the server at the other end of the stream
    serverOnline        \* the uuids of the nodes the server reaches now

vars == <<ws, reconnectAttempts, listeners, onlineNodes, nodeData, sockets, timers, wire,
          mounted, nodes, loading, error, inflight, pollTimers, isConnected, isConnecting,
          delivered, userDisconnected, failures, scheduled, restartedByCaller, newest,
          serverOnline>>

(***************************************************************************)
(* Bounds of the model.                                                    *)
(***************************************************************************)
MaxSockets == 2      \* socket objects alive (not CLOSED) at the same time
MaxTimers == 2       \* reconnect timers pending at the same time
MaxFetches == 2      \* inventory requests in flight at the same time
MaxListeners == 3    \* listeners registered at the same time
MaxFailures == 7     \* the history counter `failures` saturates here
MaxPending == 2      \* frames one socket has transmitted and the server has not read

(***************************************************************************)
(* Program constants.                                                      *)
(***************************************************************************)
maxReconnectAttempts == 5
reconnectInterval == 5000

UUIDs == {"n1", "n2"}

Min(S) == CHOOSE x \in S : \A y \in S : x <= y

Range(s) == {s[i] : i \in 1..Len(s)}

(***************************************************************************)
(* Telemetry.  A raw entry of the stream's data map gives, for every       *)
(* numeric field, a number or Undefined (the property or the object that   *)
(* holds it is missing), and two strings, "" when missing.                 *)
(***************************************************************************)
Undefined == -1

NumFields ==
    {"cpu.usage", "ram.total", "ram.used", "swap.total", "swap.used",
     "disk.total", "disk.used", "network.up", "network.down",
     "network.totalUp", "network.totalDown", "load.load1", "load.load5",
     "load.load15", "uptime", "process", "connections.tcp", "connections.udp"}

\* {cpu:{usage:42}}: the entry of the spec's scenario, every other field missing
StatsCpuOnly ==
    [num |-> [f \in NumFields |-> IF f = "cpu.usage" THEN 42 ELSE Undefined],
     message |-> "", updated_at |-> ""]

\* an entry with every field present (swap.total and the loads are 0)
StatsFull ==
    [num |-> [f \in NumFields |->
                 CASE f = "cpu.usage" -> 7
                   [] f \in {"ram.total", "disk.total"} -> 8
                   [] f \in {"ram.used", "disk.used"} -> 4
                   [] f \in {"swap.total", "swap.used", "load.load1",
                             "load.load5", "load.load15"} -> 0
                   [] OTHER -> 1],
     message |-> "ok", updated_at |-> "t0"]

RawSamples == {StatsCpuOnly, StatsFull}

\* what new Date().toISOString() can return when a merge runs
Timestamps == {"t1", "t2"}

\* the field read without the || 0
WithoutDefault(x) == x

\* x || 0
OrZero(x) == IF x = Undefined \/ x = 0 THEN 0 ELSE x

\* useNodes.ts:54-89, the object built from a truthy entry
NormalizeStats(stats, now) ==
    [num |-> [f \in NumFields |-> OrZero(stats.num[f])],
     message |-> stats.message,
     updated_at |-> IF stats.updated_at = "" THEN now ELSE stats.updated_at]

(***************************************************************************)
(* The inventory (GET /api/nodes) and the view.  A node of the view is the *)
(* inventory record plus status and stats; stats is <<>> for undefined and *)
(* <<s>> for the object s.                                                 *)
(***************************************************************************)
NodeRecord(u) == [uuid |-> u, name |-> IF u = "n1" THEN "alpha" ELSE "beta"]

Inventories == {<<>>, <<NodeRecord("n1")>>, <<NodeRecord("n1"), NodeRecord("n2")>>}

EmptyMap == [u \in {} |-> StatsFull]

DataMaps == UNION {[D -> RawSamples] : D \in SUBSET UUIDs}

\* useNodes.ts:19-22
WithStatus(nodeDataList) ==
    [i \in 1..Len(nodeDataList) |->
        [uuid |-> nodeDataList[i].uuid, name |-> nodeDataList[i].name,
         status |-> "offline", stats |-> <<>>]]

\* MergeNode with the status taken from the presence of a data entry
MergeNodeStatusFromData(node, data, now) ==
    [node EXCEPT
        !.status = IF node.uuid \in DOMAIN data.data THEN "online" ELSE "offline",
        !.stats = IF node.uuid \in DOMAIN data.data
                  THEN <<NormalizeStats(data.data[node.uuid], now)>>
                  ELSE <<>>]

\* useNodes.ts:47-91, the function mapped over prevNodes
MergeNode(node, data, now) ==
    [node EXCEPT
        !.status = IF node.uuid \in data.online THEN "online" ELSE "offline",
        !.stats = IF node.uuid \in DOMAIN data.data
                  THEN <<NormalizeStats(data.data[node.uuid], now)>>
                  ELSE <<>>]

\* the merge that also adds a node for a uuid the payload lists online and
\* the view lacks
handleWebSocketDataAddsUnknown(prevNodes, data, now) ==
    LET known == {prevNodes[i].uuid : i \in 1..Len(prevNodes)}
        new == IF "n2" \in data.online \ known
               THEN <<[uuid |-> "n2", name |-> "", status |-> "online", stats |-> <<>>]>>
               ELSE <<>>
    IN  [i \in 1..Len(prevNodes) |-> MergeNode(prevNodes[i], data, now)] \o new

\* useNodes.ts:44-94; data.online is an array and data.data an object, both
\* truthy even when empty, so the guard of line 45 holds for every payload
\* the service hands to a listener
handleWebSocketData(prevNodes, data, now) ==
    [i \in 1..Len(prevNodes) |-> MergeNode(prevNodes[i], data, now)]

(***************************************************************************)
(* Inbound frames of the stream.  kind "invalid" is text JSON.parse        *)
(* rejects, "null" is the JSON text null (reading data.status throws), and *)
(* "envelope" is an object {status, data}; hasData says data is a truthy   *)
(* object, hasOnline and hasMap that it carries online and data.           *)
(***************************************************************************)
Frame(k, st, d, ho, on, hm, mp) ==
    [kind |-> k, status |-> st, hasData |-> d,
     hasOnline |-> ho, online |-> on, hasMap |-> hm, map |-> mp]

Frames ==
    {Frame("invalid", "", FALSE, FALSE, {}, FALSE, EmptyMap),
     Frame("null", "", FALSE, FALSE, {}, FALSE, EmptyMap),
     Frame("envelope", "error", FALSE, FALSE, {}, FALSE, EmptyMap),
     Frame("envelope", "error", TRUE, TRUE, {"n1"}, TRUE, EmptyMap),
     Frame("envelope", "success", FALSE, FALSE, {}, FALSE, EmptyMap),
     Frame("envelope", "success", TRUE, FALSE, {}, FALSE, EmptyMap)}
    \cup {Frame("envelope", "success", TRUE, TRUE, on, FALSE, EmptyMap) :
             on \in SUBSET UUIDs}
    \cup {Frame("envelope", "success", TRUE, FALSE, {}, TRUE, mp) : mp \in DataMaps}
    \cup {Frame("envelope", "success", TRUE, TRUE, on, TRUE, mp) :
             on \in SUBSET UUIDs, mp \in DataMaps}

\* Accepted without the test of the status
AcceptedAnyStatus(frame) ==
    frame.kind = "envelope" /\ frame.hasData

\* api.ts:152-153: the frame parses and passes the test of line 153
Accepted(frame) ==
    frame.kind = "envelope" /\ frame.status = "success" /\ frame.hasData

\* api.ts:155: new Set(data.data.online || [])
OnlineOf(frame) == IF frame.hasOnline THEN frame.online ELSE {}

\* api.ts:157: new Map(Object.entries(data.data.data || {}))
MapOf(frame) == IF frame.hasMap THEN frame.map ELSE EmptyMap

\* api.ts:159-162: the object every listener is called with
Payload(frame) == [online |-> OnlineOf(frame), data |-> MapOf(frame)]

(***************************************************************************)
(* Listeners.  "hook" is handleWebSocketData of the mounted useNodes;      *)
(* "thrower" is a listener that throws when called and "leaver" one that   *)
(* calls its own unsubscribe when called.                                  *)
(***************************************************************************)
ClientListeners == {"thrower", "leaver"}

Throws(l) == l = "thrower"

Leaves(l) == l = "leaver"

\* api.ts:159 this.listeners.forEach(...) inside the try of line 151: the
\* listeners are called in insertion order and the first one that throws ends
\* the loop, the exception going to the catch of line 164
Invoked(ls) ==
    LET bad == {i \in 1..Len(ls) : Throws(ls[i])}
    IN  IF bad = {} THEN ls ELSE SubSeq(ls, 1, Min(bad))

\* api.ts:201: () => this.listeners.delete(listener)
Remove(ls, l) == SelectSeq(ls, LAMBDA x : x # l)

\* the listener set after the loop: a called leaver has deleted itself
AfterNotify(ls) ==
    SelectSeq(ls, LAMBDA x : ~(Leaves(x) /\ x \in Range(Invoked(ls))))

(***************************************************************************)
(* WebSocketService.  S is the record of the fields the connection code    *)
(* reads and writes: [ws, sockets, reconnectAttempts, timers], and wire,   *)
(* what its sockets have transmitted.                                      *)
(***************************************************************************)
Slots == 1..MaxSockets

Svc == [ws |-> ws, sockets |-> sockets,
        reconnectAttempts |-> reconnectAttempts, timers |-> timers, wire |-> wire]

Live(state) == state \in {"CONNECTING", "OPEN"}

\* A CLOSED socket fires no further event.  Its slot is kept while this.ws
\* refers to it and is free ("NONE") once nothing refers to it.
Unref(socks, w) ==
    IF w # 0 /\ socks[w] = "CLOSED" THEN [socks EXCEPT ![w] = "NONE"] ELSE socks

FreeSlots(S) == {i \in Slots : Unref(S.sockets, S.ws)[i] = "NONE"}

\* reconnect with the bound tested by <= instead of <
reconnectOneTooMany(S) ==
    IF S.reconnectAttempts <= maxReconnectAttempts
    THEN [S EXCEPT !.reconnectAttempts = @ + 1,
                   !.timers = Append(@, reconnectInterval)]
    ELSE S

\* api.ts:183-191
reconnect(S) ==
    IF S.reconnectAttempts < maxReconnectAttempts
    THEN [S EXCEPT !.reconnectAttempts = @ + 1,
                   !.timers = Append(@, reconnectInterval)]
    ELSE S

\* api.ts:139-181; ctorThrows: new WebSocket(...) throws and the catch of
\* line 177 runs, this.ws keeping its value
connect(S, ctorThrows) ==
    IF ctorThrows
    THEN reconnect(S)
    ELSE LET s == Min(FreeSlots(S))
         IN  [S EXCEPT !.sockets = [Unref(S.sockets, S.ws) EXCEPT ![s] = "CONNECTING"],
                       !.ws = s]

\* WebSocket.close() as line 206 uses it: a connecting or open socket starts
\* closing, its close event comes later
CloseCall(state) == IF Live(state) THEN "CLOSING" ELSE state

\* api.ts:204-209
disconnect(S) ==
    IF S.ws # 0
    THEN [S EXCEPT !.sockets = Unref([S.sockets EXCEPT ![S.ws] = CloseCall(@)], S.ws),
                   !.ws = 0]
    ELSE S

\* api.ts:193-197: whether send(data) puts data on the wire
Transmits(S) == S.ws # 0 /\ S.sockets[S.ws] = "OPEN"

\* send that leaves out the test of readyState
sendUnchecked(S, data) ==
    IF S.ws # 0 THEN [S EXCEPT !.wire[S.ws] = @ + 1] ELSE S

\* api.ts:193-197; every frame the program sends is the text 'get', so the
\* wire counts frames
send(S, data) ==
    IF Transmits(S) THEN [S EXCEPT !.wire[S.ws] = @ + 1] ELSE S

\* api.ts:143-148; `this` is the service, so send('get') goes to the socket
\* this.ws refers to, whichever socket opened
onopen(S) == send([S EXCEPT !.reconnectAttempts = 0], "get")

\* api.ts:169-172
onclose(S) == reconnect(S)

\* api.ts:199-202: Set.add keeps the first insertion of a listener
subscribe(ls, l) == IF l \in Range(ls) THEN ls ELSE Append(ls, l)

(***************************************************************************)
(* ApiService.  An HTTP exchange ends in one of: "transport" (fetch        *)
(* rejects), "http" (response.ok is false), "decode" (response.json()      *)
(* rejects) or "body" (a JSON body was decoded).  A body is the JSON text  *)
(* null (isNull) or an envelope whose data is a list (isList) or null.     *)
(***************************************************************************)
Exchange(k, n, st, l, d) ==
    [kind |-> k, isNull |-> n, status |-> st, isList |-> l, data |-> d]

Exchanges ==
    {Exchange(k, FALSE, "error", FALSE, <<>>) : k \in {"transport", "http", "decode"}}
    \cup {Exchange("body", TRUE, "", FALSE, <<>>),
          Exchange("body", FALSE, "error", FALSE, <<>>),
          Exchange("body", FALSE, "success", FALSE, <<>>)}
    \cup {Exchange("body", FALSE, "success", TRUE, inv) : inv \in Inventories}

\* api.ts:60-76: the value the promise of get() resolves to
get(x) ==
    IF x.kind = "body"
    THEN x
    ELSE Exchange("body", FALSE, "error", FALSE, <<>>)

\* api.ts:79-82: [threw, isList, value]; reading .status of null throws
getNodes(x) ==
    LET response == get(x)
    IN  IF response.isNull
        THEN [threw |-> TRUE, isList |-> FALSE, value |-> <<>>]
        ELSE IF response.status = "success"
             THEN [threw |-> FALSE, isList |-> response.isList, value |-> response.data]
             ELSE [threw |-> FALSE, isList |-> TRUE, value |-> <<>>]

\* fetchNodesResult that keeps the nodes of the view the new list lacks
fetchNodesResultKeepsDropped(x, prevNodes, prevError) ==
    LET r == getNodes(x)
    IN  IF r.threw \/ ~r.isList
        THEN [nodes |-> prevNodes, error |-> "TypeError"]
        ELSE [nodes |-> WithStatus(r.value) \o
                        SelectSeq(prevNodes,
                                  LAMBDA n : \A i \in 1..Len(r.value) : r.value[i].uuid # n.uuid),
              error |-> prevError]

\* useNodes.ts:15-26 after the await: [nodes, error] that the hook ends with;
\* nodeData.map throws when nodeData is not an array
fetchNodesResult(x, prevNodes, prevError) ==
    LET r == getNodes(x)
    IN  IF r.threw \/ ~r.isList
        THEN [nodes |-> prevNodes, error |-> "TypeError"]
        ELSE [nodes |-> WithStatus(r.value), error |-> prevError]

(***************************************************************************)
(* Actions.                                                                *)
(***************************************************************************)
SetSvc(S2) ==
    /\ ws' = S2.ws
    /\ sockets' = S2.sockets
    /\ reconnectAttempts' = S2.reconnectAttempts
    /\ timers' = S2.timers
    /\ wire' = S2.wire

Fits(S2) ==
    /\ Len(S2.timers) <= MaxTimers
    /\ \A s \in Slots : S2.wire[s] <= MaxPending

CanConnect(S, ctorThrows) == ctorThrows \/ FreeSlots(S) # {}

\* history: nFail calls of reconnect() and `armed` new timers in this step
Count(nFail, armed) ==
    /\ failures' = Min({failures + nFail, MaxFailures})
    /\ scheduled' = scheduled + armed

hookVars == <<mounted, nodes, loading, error, inflight, pollTimers, newest>>

\* history: no request issued, a request just issued, the last one settled
NoRequest == [pending |-> FALSE, ok |-> FALSE, uuids |-> <<>>]

Issued == [pending |-> TRUE, ok |-> FALSE, uuids |-> <<>>]

Settled(x) ==
    LET isList == x.kind = "body" /\ ~x.isNull /\ x.status = "success" /\ x.isList
    IN  [pending |-> FALSE, ok |-> isList,
         uuids |-> IF isList THEN [i \in 1..Len(x.data) |-> x.data[i].uuid] ELSE <<>>]

statusVars == <<isConnected, isConnecting>>

storeVars == <<listeners, onlineNodes, nodeData, delivered>>

Init ==
    /\ ws = 0
    /\ reconnectAttempts = 0
    /\ listeners = <<>>
    /\ onlineNodes = {}
    /\ nodeData = EmptyMap
    /\ sockets = [i \in Slots |-> "NONE"]
    /\ timers = <<>>
    /\ wire = [i \in Slots |-> 0]
    /\ mounted = FALSE
    /\ nodes = <<>>
    /\ loading = FALSE
    /\ error = ""
    /\ inflight = 0
    /\ pollTimers = 0
    /\ isConnected = FALSE
    /\ isConnecting = FALSE
    /\ delivered = <<>>
    /\ userDisconnected = FALSE
    /\ failures = 0
    /\ scheduled = 0
    /\ restartedByCaller = FALSE
    /\ newest = NoRequest
    /\ serverOnline = {}

\* the retry budget is used up: five timers were armed since the last reset,
\* all have fired, and a later failure armed none
BudgetExhausted ==
    /\ scheduled = maxReconnectAttempts
    /\ failures > maxReconnectAttempts
    /\ timers = <<>>

\* history: connect() called by client code has run; when the constructor
\* throws this.ws still refers to the socket it referred to
CallerMade(ctorThrows) == IF ctorThrows THEN restartedByCaller ELSE BudgetExhausted

\* wsService.connect() called by client code
Connect(ctorThrows) ==
    /\ CanConnect(Svc, ctorThrows)
    /\ LET S2 == connect(Svc, ctorThrows)
       IN  /\ Fits(S2)
           /\ SetSvc(S2)
           /\ Count(IF ctorThrows THEN 1 ELSE 0, Len(S2.timers) - Len(timers))
    /\ userDisconnected' = FALSE
    /\ restartedByCaller' = CallerMade(ctorThrows)
    /\ UNCHANGED <<hookVars, statusVars, storeVars, serverOnline>>

\* wsService.disconnect() called by client code
Disconnect ==
    /\ SetSvc(disconnect(Svc))
    /\ userDisconnected' = TRUE
    /\ restartedByCaller' = FALSE
    /\ UNCHANGED <<hookVars, statusVars, storeVars, failures, scheduled, serverOnline>>

\* part_004:11-17, the interval of line 23
checkConnection(w, socks, cur) ==
    IF w # 0
    THEN [isConnected |-> socks[w] = "OPEN", isConnecting |-> socks[w] = "CONNECTING"]
    ELSE cur

CheckConnection ==
    /\ mounted
    /\ LET c == checkConnection(ws, sockets,
                    [isConnected |-> isConnected, isConnecting |-> isConnecting])
       IN  isConnected' = c.isConnected /\ isConnecting' = c.isConnecting
    /\ UNCHANGED <<ws, sockets, reconnectAttempts, timers, hookVars, storeVars,
                   userDisconnected, failures, scheduled,
                   wire, restartedByCaller, serverOnline>>

\* part_004:28-32; the badge that carries the click handler is rendered only
\* when neither isConnecting nor isConnected (part_004:34-63)
HandleReconnect(ctorThrows) ==
    /\ mounted /\ ~isConnecting /\ ~isConnected
    /\ isConnecting' = TRUE
    /\ UNCHANGED isConnected
    /\ LET S1 == disconnect(Svc)
       IN  /\ CanConnect(S1, ctorThrows)
           /\ LET S2 == connect(S1, ctorThrows)
              IN  /\ Fits(S2)
                  /\ SetSvc(S2)
                  /\ Count(IF ctorThrows THEN 1 ELSE 0, Len(S2.timers) - Len(timers))
    /\ userDisconnected' = FALSE
    /\ restartedByCaller' = CallerMade(ctorThrows)
    /\ UNCHANGED <<hookVars, storeVars, serverOnline>>

\* the App mounts: WebSocketStatus runs checkConnection (part_004:20), then
\* useNodes runs fetchNodes (useNodes.ts:38-40, 12-13), subscribes and
\* connects (useNodes.ts:97-100) and sets the poll interval (useNodes.ts:103)
Mount(ctorThrows) ==
    /\ ~mounted
    /\ mounted' = TRUE
    /\ LET c == checkConnection(ws, sockets,
                    [isConnected |-> FALSE, isConnecting |-> FALSE])
       IN  isConnected' = c.isConnected /\ isConnecting' = c.isConnecting
    /\ nodes' = <<>>
    /\ loading' = TRUE
    /\ error' = ""
    /\ inflight' = 1
    /\ newest' = Issued
    /\ pollTimers' = pollTimers + 1
    /\ listeners' = subscribe(listeners, "hook")
    /\ Len(listeners') <= MaxListeners
    /\ CanConnect(Svc, ctorThrows)
    /\ LET S2 == connect(Svc, ctorThrows)
       IN  /\ Fits(S2)
           /\ SetSvc(S2)
           /\ Count(IF ctorThrows THEN 1 ELSE 0, Len(S2.timers) - Len(timers))
    /\ userDisconnected' = FALSE
    /\ restartedByCaller' = CallerMade(ctorThrows)
    /\ UNCHANGED <<onlineNodes, nodeData, delivered, serverOnline>>

\* the cleanup without clearInterval
cleanupKeepsInterval(C) ==
    [C EXCEPT !.listeners = Remove(@, "hook")]

\* useNodes.ts:110-114 on C = [pollTimers, listeners, svc]: clearInterval,
\* unsubscribe, and no call on the connection
cleanup(C) ==
    [C EXCEPT !.pollTimers = @ - 1,
              !.listeners = Remove(@, "hook")]

\* the App unmounts: the cleanup of useNodes.ts:110-114 runs and the state of
\* the components is gone; requests still in flight settle into nothing
Unmount ==
    /\ mounted
    /\ mounted' = FALSE
    /\ LET C2 == cleanup([pollTimers |-> pollTimers, listeners |-> listeners, svc |-> Svc])
       IN  /\ pollTimers' = C2.pollTimers
           /\ listeners' = C2.listeners
           /\ SetSvc(C2.svc)
    /\ nodes' = <<>>
    /\ loading' = FALSE
    /\ error' = ""
    /\ inflight' = 0
    /\ newest' = NoRequest
    /\ isConnected' = FALSE
    /\ isConnecting' = FALSE
    /\ UNCHANGED <<onlineNodes, nodeData, delivered, userDisconnected, failures,
                   scheduled, restartedByCaller, serverOnline>>

\* useNodes.ts:33-35 and 12-13, up to the await
RefreshNodes ==
    /\ mounted
    /\ inflight < MaxFetches
    /\ loading' = TRUE
    /\ error' = ""
    /\ inflight' = inflight + 1
    /\ newest' = Issued
    /\ UNCHANGED <<mounted, nodes, pollTimers, statusVars, storeVars, ws, sockets,
                   reconnectAttempts, timers, userDisconnected, failures, scheduled,
                   wire, restartedByCaller, serverOnline>>

\* useNodes.ts:16-29, from the await on, for any one of the requests in
\* flight: the one issued last (isNewest) or an earlier one
FetchSettle(x) ==
    /\ mounted
    /\ inflight > 0
    /\ inflight' = inflight - 1
    /\ \E isNewest \in BOOLEAN :
          /\ IF isNewest THEN newest.pending
                          ELSE inflight > (IF newest.pending THEN 1 ELSE 0)
          /\ newest' = IF isNewest THEN Settled(x) ELSE newest
    /\ LET r == fetchNodesResult(x, nodes, error)
       IN  nodes' = r.nodes /\ error' = r.error
    /\ loading' = FALSE
    /\ UNCHANGED <<mounted, pollTimers, statusVars, storeVars, ws, sockets,
                   reconnectAttempts, timers, userDisconnected, failures, scheduled,
                   wire, restartedByCaller, serverOnline>>

\* wsService.subscribe(l) by other client code
Subscribe(l) ==
    /\ l \notin Range(listeners)
    /\ Len(listeners) < MaxListeners
    /\ listeners' = subscribe(listeners, l)
    /\ UNCHANGED <<ws, sockets, reconnectAttempts, timers, onlineNodes, nodeData,
                   delivered, hookVars, statusVars, userDisconnected, failures, scheduled,
                   wire, restartedByCaller, serverOnline>>

\* the function subscribe returned, called by other client code
Unsubscribe(l) ==
    /\ l \in Range(listeners)
    /\ listeners' = Remove(listeners, l)
    /\ UNCHANGED <<ws, sockets, reconnectAttempts, timers, onlineNodes, nodeData,
                   delivered, hookVars, statusVars, userDisconnected, failures, scheduled,
                   wire, restartedByCaller, serverOnline>>

\* the open event of the socket in slot s (api.ts:143-148)
SocketOpen(s) ==
    /\ sockets[s] = "CONNECTING"
    /\ LET S2 == onopen([Svc EXCEPT !.sockets[s] = "OPEN"])
       IN  Fits(S2) /\ SetSvc(S2)
    /\ failures' = 0
    /\ scheduled' = 0
    /\ UNCHANGED <<hookVars, statusVars, storeVars, userDisconnected, restartedByCaller,
                   serverOnline>>

\* the close event of the socket in slot s (api.ts:169-172); what the
\* socket had transmitted and the server had not read is gone with it
SocketClose(s) ==
    /\ sockets[s] \in {"CONNECTING", "OPEN", "CLOSING"}
    /\ LET S1 == [Svc EXCEPT !.sockets[s] = IF ws = s THEN "CLOSED" ELSE "NONE",
                             !.wire[s] = 0]
           S2 == onclose(S1)
       IN  /\ Fits(S2)
           /\ SetSvc(S2)
           /\ Count(1, Len(S2.timers) - Len(timers))
    /\ UNCHANGED <<hookVars, statusVars, storeVars, userDisconnected, restartedByCaller,
                   serverOnline>>

\* the oldest reconnect timer fires (api.ts:187); the timers all have the
\* same delay, so they fire in the order they were armed
TimerFire(ctorThrows) ==
    /\ timers # <<>>
    /\ LET S1 == [Svc EXCEPT !.timers = Tail(@)]
       IN  /\ CanConnect(S1, ctorThrows)
           /\ LET S2 == connect(S1, ctorThrows)
              IN  /\ Fits(S2)
                  /\ SetSvc(S2)
                  /\ Count(IF ctorThrows THEN 1 ELSE 0, Len(S2.timers) - Len(S1.timers))
    /\ restartedByCaller' = IF ctorThrows THEN restartedByCaller ELSE FALSE
    /\ UNCHANGED <<hookVars, statusVars, storeVars, userDisconnected, serverOnline>>

\* api.ts:150-167 for a message event on the socket in slot s; a socket
\* delivers messages only while OPEN
onmessage(s, frame, now) ==
    /\ sockets[s] = "OPEN"
    /\ IF Accepted(frame)
       THEN /\ onlineNodes' = OnlineOf(frame)
            /\ nodeData' = MapOf(frame)
            /\ delivered' = Invoked(listeners)
            /\ listeners' = AfterNotify(listeners)
            /\ nodes' = IF "hook" \in Range(Invoked(listeners))
                        THEN handleWebSocketData(nodes, Payload(frame), now)
                        ELSE nodes
       ELSE /\ delivered' = <<>>
            /\ UNCHANGED <<onlineNodes, nodeData, listeners, nodes>>

\* a message event on the socket in slot s, whatever made the server send
OnMessage(s, frame, now) ==
    /\ onmessage(s, frame, now)
    /\ UNCHANGED <<ws, sockets, reconnectAttempts, timers, mounted, loading, error,
                   inflight, pollTimers, newest, statusVars, userDisconnected, failures, scheduled,
                   wire, restartedByCaller, serverOnline>>

\* the callback of the interval without the test of the online set
pollCallbackAlways(S, online) == send(S, "get")

\* useNodes.ts:104-106; online is this.onlineNodes, which getOnlineNodes()
\* copies into an array (api.ts:211-213)
pollCallback(S, online) ==
    IF Cardinality(online) > 0 THEN send(S, "get") ELSE S

\* one tick of an interval of useNodes.ts:103 that is set
PollTick ==
    /\ pollTimers > 0
    /\ LET S2 == pollCallback(Svc, onlineNodes)
       IN  Fits(S2) /\ SetSvc(S2)
    /\ UNCHANGED <<hookVars, statusVars, storeVars, userDisconnected, failures,
                   scheduled, restartedByCaller, serverOnline>>

\* the server reads one frame the socket in slot s has transmitted
ServerTake(s) ==
    /\ sockets[s] \in {"OPEN", "CLOSING"}
    /\ wire[s] > 0
    /\ wire' = [wire EXCEPT ![s] = @ - 1]
    /\ UNCHANGED <<ws, sockets, reconnectAttempts, timers, hookVars, statusVars,
                   storeVars, userDisconnected, failures, scheduled, restartedByCaller,
                   serverOnline>>

\* the frame a server sends for its current state: the nodes it reaches,
\* with telemetry for each of them
StateFrame ==
    Frame("envelope", "success", TRUE, TRUE, serverOnline,
          TRUE, [u \in serverOnline |-> StatsFull])

\* the server reads one pull trigger of the socket in slot s and answers it
\* with its current state; the answer arrives (api.ts:150-167)
ServerAnswer(s) ==
    /\ wire[s] > 0
    /\ wire' = [wire EXCEPT ![s] = @ - 1]
    /\ onmessage(s, StateFrame, "t1")
    /\ UNCHANGED <<ws, sockets, reconnectAttempts, timers, mounted, loading, error,
                   inflight, pollTimers, newest, statusVars, userDisconnected,
                   failures, scheduled, restartedByCaller, serverOnline>>

\* the server starts to reach node u
NodeUp(u) ==
    /\ u \notin serverOnline
    /\ serverOnline' = serverOnline \cup {u}
    /\ UNCHANGED <<ws, sockets, reconnectAttempts, timers, wire, hookVars, statusVars,
                   storeVars, userDisconnected, failures, scheduled, restartedByCaller>>

\* the server loses node u
NodeDown(u) ==
    /\ u \in serverOnline
    /\ serverOnline' = serverOnline \ {u}
    /\ UNCHANGED <<ws, sockets, reconnectAttempts, timers, wire, hookVars, statusVars,
                   storeVars, userDisconnected, failures, scheduled, restartedByCaller>>

Next ==
    \/ \E b \in BOOLEAN : Connect(b)
    \/ Disconnect
    \/ CheckConnection
    \/ \E b \in BOOLEAN : HandleReconnect(b)
    \/ \E b \in BOOLEAN : Mount(b)
    \/ Unmount
    \/ RefreshNodes
    \/ \E x \in Exchanges : FetchSettle(x)
    \/ \E l \in ClientListeners : Subscribe(l)
    \/ \E l \in ClientListeners : Unsubscribe(l)
    \/ \E s \in Slots : SocketOpen(s)
    \/ \E s \in Slots : SocketClose(s)
    \/ \E b \in BOOLEAN : TimerFire(b)
    \/ \E s \in Slots, frame \in Frames, now \in Timestamps : OnMessage(s, frame, now)
    \/ PollTick
    \/ \E s \in Slots : ServerTake(s)
    \/ \E s \in Slots : ServerAnswer(s)
    \/ \E u \in UUIDs : NodeUp(u)
    \/ \E u \in UUIDs : NodeDown(u)

Spec == Init /\ [][Next]_vars

(***************************************************************************)
(* The connection life cycle alone: every action that writes a field of    *)
(* the connection (ws, sockets, reconnectAttempts, timers) or that a guard *)
(* of such an action reads.  No frame arrives and no request settles.      *)
(***************************************************************************)
NextConnection ==
    \/ \E b \in BOOLEAN : Connect(b)
    \/ Disconnect
    \/ CheckConnection
    \/ \E b \in BOOLEAN : HandleReconnect(b)
    \/ \E b \in BOOLEAN : Mount(b)
    \/ Unmount
    \/ \E s \in Slots : SocketOpen(s)
    \/ \E s \in Slots : SocketClose(s)
    \/ \E b \in BOOLEAN : TimerFire(b)

SpecConnection == Init /\ [][NextConnection]_vars

(***************************************************************************)
(* The connection life cycle in a browser whose WebSocket constructor      *)
(* never throws.                                                           *)
(***************************************************************************)
NextSockets ==
    \/ Connect(FALSE)
    \/ Disconnect
    \/ CheckConnection
    \/ HandleReconnect(FALSE)
    \/ Mount(FALSE)
    \/ Unmount
    \/ \E s \in Slots : SocketOpen(s)
    \/ \E s \in Slots : SocketClose(s)
    \/ TimerFire(FALSE)

SpecSockets == Init /\ [][NextSockets]_vars

(***************************************************************************)
(* The view alone: one mounted hook, its requests, and every frame on the  *)
(* socket the mount created.                                               *)
(***************************************************************************)
NextView ==
    \/ Mount(FALSE)
    \/ RefreshNodes
    \/ \E x \in Exchanges : FetchSettle(x)
    \/ \E s \in Slots : SocketOpen(s)
    \/ \E s \in Slots, frame \in Frames, now \in Timestamps : OnMessage(s, frame, now)

SpecView == Init /\ [][NextView]_vars

(***************************************************************************)
(* The fan-out alone: listeners come and go and frames arrive; no request  *)
(* settles, so the view stays empty, and one frame of each kind is enough. *)
(***************************************************************************)
FanoutFrames ==
    {f \in Frames :
        \/ ~Accepted(f)
        \/ f.hasOnline /\ f.hasMap /\ f.map = EmptyMap /\ f.online \in {{}, {"n1"}}}

NextFanout ==
    \/ Mount(FALSE)
    \/ Unmount
    \/ \E l \in ClientListeners : Subscribe(l)
    \/ \E l \in ClientListeners : Unsubscribe(l)
    \/ \E s \in Slots : SocketOpen(s)
    \/ \E s \in Slots, frame \in FanoutFrames : OnMessage(s, frame, "t1")

SpecFanout == Init /\ [][NextFanout]_vars

(***************************************************************************)
(* The outbound side alone: the hook mounts and unmounts, its interval     *)
(* ticks, sockets open, close and are replaced by the reconnect timer, and *)
(* the server reads what was transmitted; one frame of each kind arrives.  *)
(***************************************************************************)
NextPoll ==
    \/ Mount(FALSE)
    \/ Unmount
    \/ \E s \in Slots : SocketOpen(s)
    \/ \E s \in Slots : SocketClose(s)
    \/ TimerFire(FALSE)
    \/ \E s \in Slots, frame \in FanoutFrames : OnMessage(s, frame, "t1")
    \/ PollTick
    \/ \E s \in Slots : ServerTake(s)

SpecPoll == Init /\ [][NextPoll]_vars

(***************************************************************************)
(* Every state send() can find the current socket in: none (after          *)
(* disconnect()), connecting, open, closed, and another socket than the    *)
(* one whose open event calls it (after a second mount).  Reconnect timers *)
(* are armed and never fire here, so a remount is what replaces a socket.  *)
(***************************************************************************)
NextSend ==
    \/ Mount(FALSE)
    \/ Unmount
    \/ Disconnect
    \/ \E s \in Slots : SocketOpen(s)
    \/ \E s \in Slots : SocketClose(s)
    \/ \E s \in Slots, frame \in FanoutFrames : OnMessage(s, frame, "t1")
    \/ PollTick
    \/ \E s \in Slots : ServerTake(s)

SpecSend == Init /\ [][NextSend]_vars

(***************************************************************************)
(* The pull cycle on a connection that stays open: the hook mounts, its    *)
(* inventory request settles, the socket opens and never closes, the       *)
(* interval ticks, and the server, whose nodes come and go, answers every  *)
(* pull trigger with its current state and sends nothing unasked.  What is *)
(* enabled for good happens: the open event, the settling of a request, a  *)
(* tick of the interval, the answer to a trigger.                          *)
(***************************************************************************)
NextLive ==
    \/ Mount(FALSE)
    \/ \E x \in Exchanges : FetchSettle(x)
    \/ \E s \in Slots : SocketOpen(s)
    \/ PollTick
    \/ \E s \in Slots : ServerAnswer(s)
    \/ \E u \in UUIDs : NodeUp(u)
    \/ \E u \in UUIDs : NodeDown(u)

SpecLive ==
    /\ Init
    /\ [][NextLive]_vars
    /\ WF_vars(\E s \in Slots : SocketOpen(s))
    /\ WF_vars(\E x \in Exchanges : FetchSettle(x))
    /\ WF_vars(PollTick)
    /\ WF_vars(\E s \in Slots : ServerAnswer(s))

(***************************************************************************)
(* Steps of the stream's message handler, told from the two states of a    *)
(* step.                                                                   *)
(***************************************************************************)
\* the step is the handling of `frame` on some open socket
MessageStep(frame) ==
    \E s \in Slots, now \in Timestamps : OnMessage(s, frame, now)

\* the step is the handling of an accepted frame: such a frame acts as the
\* one that spells out the online list and the data map the service stores
AcceptedStep ==
    MessageStep(Frame("envelope", "success", TRUE, TRUE, onlineNodes', TRUE, nodeData'))

\* the hook's listener runs in this step's fan-out
HookNotified == "hook" \in Range(Invoked(listeners))

\* success envelopes whose data object lacks the online list or the data map
PartialFrames ==
    {f \in Frames : Accepted(f) /\ (~f.hasOnline \/ ~f.hasMap)}

\* frames JSON.parse rejects
InvalidFrames == {f \in Frames : f.kind = "invalid"}

\* inventory exchanges whose body cannot be decoded
DecodeFailures == {x \in Exchanges : x.kind = "decode"}

LiveSockets == {s \in Slots : Live(sockets[s])}

(***************************************************************************)
(* C1.  A telemetry merge leaves the stored telemetry of a node unchanged  *)
(* when the update's data map has no entry for that node, whether or not   *)
(* the node is in the update's online list.                                *)
(***************************************************************************)
C1_TelemetryKeptWhenOmitted ==
    [][(AcceptedStep /\ HookNotified) =>
          \A i \in 1..Len(nodes) :
              nodes[i].uuid \notin DOMAIN nodeData' => nodes'[i].stats = nodes[i].stats]_vars

(***************************************************************************)
(* C2.  In every reachable state a node of the view is online if and only  *)
(* if its uuid is in the online list of the most recently accepted stream  *)
(* payload (the empty set before any payload).                             *)
(***************************************************************************)
C2_StatusIsOnlineSetMembership ==
    \A i \in 1..Len(nodes) :
        (nodes[i].status = "online") <=> (nodes[i].uuid \in onlineNodes)

(***************************************************************************)
(* C3.  Immediately after a telemetry merge every node of the view is      *)
(* online if and only if its uuid is in the payload's online list, whether *)
(* or not the payload's data map has an entry for the node.                *)
(***************************************************************************)
C3_MergeSetsStatusFromOnlineList ==
    [][(AcceptedStep /\ HookNotified) =>
          \A i \in 1..Len(nodes') :
              (nodes'[i].status = "online") <=> (nodes'[i].uuid \in onlineNodes')]_vars

\* a merge has run on a view that holds a node the payload lists online
\* without a data entry, and one it does not list but has an entry for
C3_Witness ==
    /\ "hook" \in Range(delivered)
    /\ \E i \in 1..Len(nodes) :
          /\ nodes[i].status = "online"
          /\ nodes[i].uuid \in onlineNodes
          /\ nodes[i].uuid \notin DOMAIN nodeData
    /\ \E i \in 1..Len(nodes) :
          /\ nodes[i].status = "offline"
          /\ nodes[i].uuid \notin onlineNodes
          /\ nodes[i].uuid \in DOMAIN nodeData
          /\ nodes[i].stats # <<>>

(***************************************************************************)
(* C4.  After disconnect() no automatic reconnect attempt occurs until     *)
(* connect() is called again: while userDisconnected holds, no reconnect   *)
(* timer fires into connect().                                             *)
(***************************************************************************)
C4_NoReconnectAfterDisconnect ==
    [][userDisconnected => ~(\E b \in BOOLEAN : TimerFire(b))]_vars

(***************************************************************************)
(* C5.  At every moment at most one socket created by the stream client is *)
(* connecting or open.                                                     *)
(***************************************************************************)
C5_AtMostOneLiveSocket == Cardinality(LiveSockets) <= 1

(***************************************************************************)
(* C6.  connect() called while the current socket is connecting or open    *)
(* creates no socket and leaves the current socket, the attempt counter    *)
(* and the listener set unchanged.                                         *)
(***************************************************************************)
C6_ConnectIdempotent ==
    [][\A b \in BOOLEAN :
          (ws # 0 /\ Live(sockets[ws]) /\ Connect(b)) =>
              UNCHANGED <<ws, sockets, reconnectAttempts, listeners>>]_vars

(***************************************************************************)
(* C7.  Counting from the last reset of the attempt counter, the client    *)
(* has armed one reconnect timer per failed attempt up to five, each with  *)
(* the 5000 ms delay, and none for the sixth and later failures.           *)
(***************************************************************************)
C7_FiveReconnectsThenStop ==
    /\ scheduled = Min({failures, 5})
    /\ \A i \in 1..Len(timers) : timers[i] = 5000

\* six attempts in a row have failed, five timers were armed and have fired,
\* and nothing is pending or alive
C7_Witness ==
    /\ failures = 6
    /\ scheduled = 5
    /\ timers = <<>>
    /\ LiveSockets = {}
    /\ \A s \in Slots : sockets[s] # "CLOSING"

(***************************************************************************)
(* C8.  When a listener throws while an accepted payload is delivered,     *)
(* every listener registered after it is still called: the fan-out of an   *)
(* accepted frame calls every registered listener.                         *)
(***************************************************************************)
C8_ThrowingListenerDoesNotStopFanout ==
    [][AcceptedStep => Range(listeners) \subseteq Range(delivered')]_vars

(***************************************************************************)
(* C9.  A success envelope whose data object lacks the online list or the  *)
(* data map is not accepted: no listener is called and the online set, the *)
(* telemetry map and the view keep their values.                           *)
(***************************************************************************)
C9_PartialEnvelopeRejected ==
    [][\A f \in PartialFrames :
          MessageStep(f) =>
              /\ delivered' = <<>>
              /\ UNCHANGED <<onlineNodes, nodeData, nodes>>]_vars

(***************************************************************************)
(* C10.  A decode failure on either channel (a stream frame that is not    *)
(* JSON, an inventory body that cannot be decoded) leaves the view as it   *)
(* was.                                                                    *)
(***************************************************************************)
C10_DecodeFailureKeepsView ==
    [][((\E f \in InvalidFrames : MessageStep(f))
           \/ (\E x \in DecodeFailures : FetchSettle(x)))
          => UNCHANGED nodes]_vars

\* inventory exchanges the spec calls failed: the request is rejected, the
\* status is not OK, the body is not JSON, or the envelope reports an error
FailedExchanges ==
    {x \in Exchanges :
        \/ x.kind \in {"transport", "http", "decode"}
        \/ x.kind = "body" /\ ~x.isNull /\ x.status = "error"}

(***************************************************************************)
(* C11.  When the inventory request fails, getNodes returns the empty      *)
(* sequence and the failure reaches the hook: once the request has         *)
(* settled, the hook's error is a message, not null.                       *)
(***************************************************************************)
C11_FetchFailureSurfaced ==
    [][\A x \in FailedExchanges :
          FetchSettle(x) =>
              /\ getNodes(x).value = <<>>
              /\ error' # ""]_vars

\* inventory exchanges that end in a list of nodes
ListExchanges ==
    {x \in Exchanges : x.kind = "body" /\ ~x.isNull /\ x.status = "success" /\ x.isList}

\* the uuids of a sequence of records, in order
UuidsOf(seq) == [i \in 1..Len(seq) |-> seq[i].uuid]

\* `view` is the join of the inventory `inv` with the payload (online, map):
\* the nodes of inv, each online iff listed and with the payload's telemetry
Joined(view, inv, online, map) ==
    /\ UuidsOf(view) = UuidsOf(inv)
    /\ \A i \in 1..Len(view) :
          /\ (view[i].status = "online") <=> (view[i].uuid \in online)
          /\ view[i].uuid \in DOMAIN map =>
                \E now \in Timestamps :
                    view[i].stats = <<NormalizeStats(map[view[i].uuid], now)>>

\* the hook's listener ran for the last inbound frame, an accepted one
PayloadApplied == "hook" \in Range(delivered)

\* no inventory request is pending and the last one did not fail
InventoryApplied == mounted /\ inflight = 0 /\ error = ""

(***************************************************************************)
(* C12.  Whichever of the inventory result and the accepted payload is     *)
(* applied second, the view is then their join: an inventory applied after *)
(* a payload, and a payload applied after an inventory, both leave every   *)
(* inventory node online iff the payload lists it, with the payload's      *)
(* telemetry for it.                                                       *)
(***************************************************************************)
C12_EitherOrderJoins ==
    [][/\ \A x \in ListExchanges :
             (PayloadApplied /\ FetchSettle(x)) =>
                 Joined(nodes', x.data, onlineNodes, nodeData)
       /\ (InventoryApplied /\ AcceptedStep /\ HookNotified) =>
             Joined(nodes', nodes, onlineNodes', nodeData')]_vars

\* the half of C12 the code keeps: a payload applied after the inventory
C12_PayloadAfterInventory ==
    [][(InventoryApplied /\ AcceptedStep /\ HookNotified) =>
          Joined(nodes', nodes, onlineNodes', nodeData')]_vars

\* frames that do not parse, report a status other than success, or carry
\* no data object
RejectedFrames ==
    {f \in Frames : f.kind # "envelope" \/ f.status # "success" \/ ~f.hasData}

(***************************************************************************)
(* C14.  A frame that fails JSON parsing, reports a status other than      *)
(* success or carries no data object is handled to the end (the handler's  *)
(* step exists for every such frame), calls no listener and leaves the     *)
(* online set, the telemetry map, the listener set and the view unchanged. *)
(***************************************************************************)
C14_RejectedFrameChangesNothing ==
    [][\A f \in RejectedFrames :
          MessageStep(f) =>
              /\ delivered' = <<>>
              /\ UNCHANGED <<onlineNodes, nodeData, nodes, listeners>>]_vars

\* a rejected frame was the last one handled, with the hook subscribed and
\* an online set, a telemetry map and a view that earlier payloads filled
C14_Witness ==
    /\ delivered = <<>>
    /\ "hook" \in Range(listeners)
    /\ onlineNodes # {}
    /\ nodeData # EmptyMap
    /\ \E i \in 1..Len(nodes) : nodes[i].status = "online" /\ nodes[i].stats # <<>>

(***************************************************************************)
(* C15.  After an inventory replace the view holds exactly the nodes of    *)
(* the new inventory, in its order: a node the new inventory no longer     *)
(* lists is gone from the view, whether or not its uuid is in the online   *)
(* set.                                                                    *)
(***************************************************************************)
C15_ReplaceYieldsNewInventory ==
    [][\A x \in ListExchanges :
          FetchSettle(x) =>
              /\ UuidsOf(nodes') = UuidsOf(x.data)
              /\ \A i \in 1..Len(nodes') : nodes'[i].name = x.data[i].name]_vars

\* every request has settled, the view holds n1 alone, and n2 is still in
\* the online set and the telemetry map of the stream client
C15_Witness ==
    /\ mounted /\ inflight = 0 /\ ~loading
    /\ UuidsOf(nodes) = <<"n1">>
    /\ "n2" \in onlineNodes
    /\ "n2" \in DOMAIN nodeData

(***************************************************************************)
(* C16.  Applying the same telemetry update (the same online list and the  *)
(* same data map) a second time, right after the first, gives the view the *)
(* first application gave, whatever the clock reads at the second one.     *)
(***************************************************************************)
C16_MergeIdempotent ==
    [][(AcceptedStep /\ HookNotified) =>
          \A now \in Timestamps :
              handleWebSocketData(nodes', [online |-> onlineNodes', data |-> nodeData'], now)
                  = nodes']_vars

(***************************************************************************)
(* C17.  When a payload delivers a telemetry entry for a node of the view, *)
(* the stored telemetry gives a number for every numeric field, and 0 for  *)
(* each one the entry lacks; no field is stored as undefined.              *)
(***************************************************************************)
C17_AbsentNumericFieldsAreZero ==
    [][(AcceptedStep /\ HookNotified) =>
          \A i \in 1..Len(nodes') :
              nodes'[i].uuid \in DOMAIN nodeData' =>
                  /\ nodes'[i].stats # <<>>
                  /\ \A f \in NumFields :
                        /\ nodes'[i].stats[1].num[f] # Undefined
                        /\ nodeData'[nodes'[i].uuid].num[f] = Undefined
                              => nodes'[i].stats[1].num[f] = 0]_vars

\* the hook has merged an entry that carries cpu.usage alone: the view has
\* the cpu.usage of the entry and 0 for a field the entry lacks
C17_Witness ==
    /\ PayloadApplied
    /\ \E i \in 1..Len(nodes) :
          /\ nodes[i].uuid \in DOMAIN nodeData
          /\ nodeData[nodes[i].uuid].num["ram.total"] = Undefined
          /\ nodes[i].stats # <<>>
          /\ nodes[i].stats[1].num["ram.total"] = 0
          /\ nodes[i].stats[1].num["cpu.usage"] = 42

\* the step creates a socket
SocketCreated ==
    \E s \in Slots : sockets[s] # "CONNECTING" /\ sockets'[s] = "CONNECTING"

(***************************************************************************)
(* C13.  Once the retry budget is exhausted no socket is created unless    *)
(* client code calls connect(); and when the attempt such a call started   *)
(* fails, the failure arms a reconnect timer again.                        *)
(***************************************************************************)
C13_ExplicitConnectRestartsCycle ==
    [][/\ (BudgetExhausted /\ SocketCreated) => restartedByCaller'
       /\ \A s \in Slots :
             (ws = s /\ restartedByCaller /\ sockets[s] = "CONNECTING" /\ SocketClose(s))
                => Len(timers') = Len(timers) + 1]_vars

\* the half of C13 the code keeps: no automatic attempt after exhaustion
C13_NoAttemptAfterExhaustion ==
    [][(BudgetExhausted /\ SocketCreated) => restartedByCaller']_vars

(***************************************************************************)
(* C18.  A tick of the poll timer transmits a pull trigger only if the     *)
(* online set is non-empty: a tick that finds the online set empty leaves  *)
(* the wire as it was, and a tick that puts a frame on the wire found a    *)
(* node online.                                                            *)
(***************************************************************************)
C18_PollOnlyWhenOnline ==
    [][PollTick =>
          /\ onlineNodes = {} => UNCHANGED wire
          /\ wire' # wire => onlineNodes # {}]_vars

\* the interval is set, a node is online, and the open socket has
\* transmitted the trigger of its open event and one of a tick
C18_Witness ==
    /\ pollTimers > 0
    /\ onlineNodes # {}
    /\ ws # 0
    /\ sockets[ws] = "OPEN"
    /\ wire[ws] = 2
    /\ \A s \in Slots \ {ws} : sockets[s] = "NONE"

\* the step is the teardown of the consuming view
Teardown == mounted /\ ~mounted'

(***************************************************************************)
(* C19.  The teardown of the consuming view clears the poll interval,      *)
(* removes the hook's listener and leaves the connection as it is (no      *)
(* socket changes state, this.ws, the attempt counter, the reconnect       *)
(* timers and the wire keep their values); while the view is torn down no  *)
(* tick of the poll timer transmits and no accepted payload reaches the    *)
(* hook's listener.                                                        *)
(***************************************************************************)
C19_TeardownKeepsConnection ==
    [][/\ Teardown =>
             /\ pollTimers' = 0
             /\ "hook" \notin Range(listeners')
             /\ UNCHANGED <<ws, sockets, reconnectAttempts, timers, wire>>
       /\ (~mounted /\ PollTick) => UNCHANGED wire
       /\ (~mounted /\ AcceptedStep) => "hook" \notin Range(delivered')]_vars

\* the view is torn down while the socket its mount created is open and a
\* node is online: no interval is set and the hook's listener is gone
C19_Witness ==
    /\ ~mounted
    /\ ws # 0
    /\ sockets[ws] = "OPEN"
    /\ onlineNodes # {}
    /\ pollTimers = 0
    /\ "hook" \notin Range(listeners)

(***************************************************************************)
(* C20.  A frame goes on the wire only through send() finding the current  *)
(* socket open: in every step, a socket that transmits is the one this.ws  *)
(* refers to, it is OPEN, and it transmits one frame, the one of the call. *)
(* A send() that finds no socket, or the current socket connecting or      *)
(* closed, transmits nothing then and nothing later (nothing is queued),   *)
(* and the step of its caller completes.                                   *)
(***************************************************************************)
C20_SendOnlyWhenOpen ==
    [][/\ \A s \in Slots :
             wire'[s] > wire[s] =>
                 /\ ws' = s
                 /\ sockets'[s] = "OPEN"
                 /\ wire'[s] = wire[s] + 1
       /\ (PollTick /\ ~Transmits(Svc)) => UNCHANGED wire]_vars

\* the interval is set and a node is online, so every tick calls send(),
\* while the current socket is still connecting: nothing is on its wire
C20_Witness ==
    /\ pollTimers > 0
    /\ onlineNodes # {}
    /\ ws # 0
    /\ sockets[ws] = "CONNECTING"
    /\ wire[ws] = 0

\* no registered listener throws when called
NoThrower == \A i \in 1..Len(listeners) : ~Throws(listeners[i])

(***************************************************************************)
(* C21.  Each accepted payload is delivered exactly once to every          *)
(* registered listener, in registration order: the sequence of listeners   *)
(* called is the sequence of listeners registered; and what the hook's     *)
(* listener applies is the whole online list and the whole telemetry map   *)
(* the service now stores.                                                 *)
(***************************************************************************)
C21_DeliveredOnceInOrder ==
    [][AcceptedStep =>
          /\ delivered' = listeners
          /\ HookNotified =>
                \E now \in Timestamps :
                    nodes' = handleWebSocketData(nodes,
                                 [online |-> onlineNodes', data |-> nodeData'], now)]_vars

\* what the code keeps of C21: the delivery when no listener throws
C21_DeliveredOnceWithoutThrower ==
    [][(AcceptedStep /\ NoThrower) => delivered' = listeners]_vars

(***************************************************************************)
(* C22.  The open event of a socket resets the attempt counter to 0,       *)
(* whatever it was, and puts one pull trigger on the wire of the socket    *)
(* that opened.                                                            *)
(***************************************************************************)
C22_OpenResetsAndPulls ==
    [][\A s \in Slots :
          SocketOpen(s) =>
              /\ reconnectAttempts' = 0
              /\ wire'[s] = wire[s] + 1]_vars

\* what the code keeps of C22: the reset, and the trigger when the socket
\* that opens is the one this.ws refers to
C22_CurrentSocketOpenPulls ==
    [][\A s \in Slots :
          SocketOpen(s) =>
              /\ reconnectAttempts' = 0
              /\ ws = s => wire'[s] = wire[s] + 1]_vars

\* the listeners of `called` that are l, counted
TimesCalled(called, l) == Cardinality({i \in 1..Len(called) : called[i] = l})

\* a listener that unsubscribes itself is called in this step's fan-out
LeaverNotified == \E l \in Range(Invoked(listeners)) : Leaves(l)

(***************************************************************************)
(* C23.  When a listener that unsubscribes itself is notified of an        *)
(* accepted payload, it leaves the listener set, every other registered    *)
(* listener is called exactly once for that payload and stays registered,  *)
(* and a listener that is not registered is not called.                    *)
(***************************************************************************)
C23_SelfUnsubscribeIsolated ==
    [][/\ (AcceptedStep /\ LeaverNotified) =>
             /\ \A l \in Range(listeners) :
                   /\ TimesCalled(delivered', l) = 1
                   /\ Leaves(l) <=> l \notin Range(listeners')
       /\ AcceptedStep => Range(delivered') \subseteq Range(listeners)]_vars

\* what the code keeps of C23: the same when no registered listener throws
C23_SelfUnsubscribeWithoutThrower ==
    [][/\ (AcceptedStep /\ LeaverNotified /\ NoThrower) =>
             /\ \A l \in Range(listeners) :
                   /\ TimesCalled(delivered', l) = 1
                   /\ Leaves(l) <=> l \notin Range(listeners')
       /\ AcceptedStep => Range(delivered') \subseteq Range(listeners)]_vars

(***************************************************************************)
(* C24.  A telemetry merge changes only status and telemetry: the uuids of *)
(* the view, their order and the name of every node are the same after the *)
(* merge as before it, whatever uuids the payload's online list and data   *)
(* map name.                                                               *)
(***************************************************************************)
C24_MergeKeepsIdentity ==
    [][(AcceptedStep /\ HookNotified) =>
          /\ UuidsOf(nodes') = UuidsOf(nodes)
          /\ \A i \in 1..Len(nodes) : nodes'[i].name = nodes[i].name]_vars

\* the hook has merged a payload whose online list and data map name n2,
\* into a view that holds n1 alone
C24_Witness ==
    /\ PayloadApplied
    /\ UuidsOf(nodes) = <<"n1">>
    /\ nodes[1].name = "alpha"
    /\ "n2" \in onlineNodes
    /\ "n2" \in DOMAIN nodeData

\* the step handles an accepted frame of a socket this.ws does not refer to:
\* there is no current socket, or the current one is not open
StaleAcceptedStep == (ws = 0 \/ sockets[ws] # "OPEN") /\ AcceptedStep

(***************************************************************************)
(* C25.  Events of a socket that is not the current one (a later connect() *)
(* superseded it, or disconnect() dropped it) change no client state: its  *)
(* close event leaves the attempt counter and the reconnect timers as they *)
(* are, and its messages leave the online set, the telemetry map and the   *)
(* view as they are and call no listener.                                  *)
(***************************************************************************)
C25_StaleSocketEventsIgnored ==
    [][/\ \A s \in Slots :
             (s # ws /\ SocketClose(s)) => UNCHANGED <<reconnectAttempts, timers>>
       /\ StaleAcceptedStep =>
             /\ UNCHANGED <<onlineNodes, nodeData, nodes>>
             /\ delivered' = <<>>]_vars

\* the half of C25 about messages, on its own
C25_StaleMessagesIgnored ==
    [][StaleAcceptedStep =>
          /\ UNCHANGED <<onlineNodes, nodeData, nodes>>
          /\ delivered' = <<>>]_vars

\* inventory exchanges that fail before a body is decoded or whose body is
\* an error envelope
FailedRefreshes ==
    {x \in FailedExchanges : x.kind # "decode"}

(***************************************************************************)
(* C27.  A failed inventory refresh (transport error, non-OK status, error *)
(* envelope) leaves the node list of the view, with every status and all   *)
(* telemetry, exactly as it was.                                           *)
(***************************************************************************)
C27_FailedRefreshKeepsView ==
    [][\A x \in FailedRefreshes : FetchSettle(x) => UNCHANGED nodes]_vars

(***************************************************************************)
(* C28.  At most one reconnect timer is pending at any time.               *)
(***************************************************************************)
C28_AtMostOneTimerPending == Len(timers) <= 1

\* NodeTable.tsx:135-136 (also 205-234, 437-454): for a node whose stats is
\* truthy the table computes (stats.ram.used / stats.ram.total) * 100 and
\* (stats.disk.used / stats.disk.total) * 100; these are the divisors
PercentDivisors(stats) == {stats.num["ram.total"], stats.num["disk.total"]}

(***************************************************************************)
(* C30.  For every node of the view that has telemetry, the totals the     *)
(* memory and disk percentages divide by are non-zero.                     *)
(***************************************************************************)
C30_PercentDivisorsNonZero ==
    \A i \in 1..Len(nodes) :
        nodes[i].stats # <<>> => 0 \notin PercentDivisors(nodes[i].stats[1])

(***************************************************************************)
(* C29.  With inventory requests overlapping, loading is true as long as   *)
(* one of them is in flight, and once all have settled the view holds the  *)
(* inventory of the request issued last (when that one ended in a list),   *)
(* whatever the order of the responses.                                    *)
(***************************************************************************)
C29_LatestIssuedWins ==
    /\ (mounted /\ inflight > 0) => loading
    /\ (mounted /\ inflight = 0 /\ newest.ok) => UuidsOf(nodes) = newest.uuids

\* the half of C29 about the inventory, on its own
C29_LatestInventoryShown ==
    (mounted /\ inflight = 0 /\ newest.ok) => UuidsOf(nodes) = newest.uuids

\* node u is in the view; the view shows it online
InView(u) == \E i \in 1..Len(nodes) : nodes[i].uuid = u

ShownOnline(u) == \E i \in 1..Len(nodes) : nodes[i].uuid = u /\ nodes[i].status = "online"

\* the view holds its inventory and the current socket is open
Watching == mounted /\ inflight = 0 /\ ws # 0 /\ sockets[ws] = "OPEN"

(***************************************************************************)
(* C26.  On a connection that stays open, with a server that answers every *)
(* pull trigger with its current state, a node of the view that the server *)
(* reaches is eventually shown online (or the server has lost it again),   *)
(* whatever online set the client received last.                           *)
(***************************************************************************)
C26_ReachableNodeEventuallyOnline ==
    \A u \in UUIDs :
        (Watching /\ InView(u) /\ u \in serverOnline)
            ~> (ShownOnline(u) \/ u \notin serverOnline \/ ~InView(u))

====
